---- MODULE Spec2Model ----
(***************************************************************************)
(* azure-wakeup-db: the command of src/src/main.go.  main builds a         *)
(* connection string, then retryWithThrottlingError calls                  *)
(* connectWithString up to maxRetries times, sleeping between attempts,    *)
(* until success, a non-throttling error, exhaustion or cancellation.      *)
(*                                                                         *)
(* Text (Go string) is a sequence of one-character strings, so that        *)
(* strings.Contains, strings.HasPrefix, URL escaping and fmt formatting    *)
(* are computed and not assumed.  A time.Duration and the clock are in     *)
(* milliseconds (Second = 1000).                                           *)
(***************************************************************************)
EXTENDS Integers, Sequences, FiniteSets, TLC

(* ---------------------------- bounds ---------------------------------- *)
\* rand.Float64() is drawn from { r / RandSteps : r \in 0..RandSteps-1 }
RandSteps == 2
\* a probe or an open takes i * ProbeStep for some i \in 0..MaxProbeSteps
MaxProbeSteps == 1

(* ------------------------ program constants --------------------------- *)
Second == 1000
Minute == 60 * Second
maxRetries == 6
InitialRetryDelay == 12 * Second
MainTimeout == 5 * Minute
PingTimeout == 5 * Minute
DialTimeoutDuration == 5 * Minute

(* ------------------------------ text ---------------------------------- *)
ThrottlingMarker == <<"4","0","6","1","3">>
EmptyConfigPrefix == <<"s","q","l","s","e","r","v","e","r",":","/","/",":","@",":","1","4","3","3","?">>
AppNameKey == <<"A","p","p","N","a","m","e">>
AppNameValue == <<"g","h","c","r",".","i","o","/","r","e","d","m","e","r","/","a","z","u","r","e","-","w","a","k","e","u","p","-","d","b">>
DisableRetryKey == <<"D","i","s","a","b","l","e","R","e","t","r","y">>
DialTimeoutKey == <<"D","i","a","l","T","i","m","e","o","u","t">>
DatabaseKey == <<"d","a","t","a","b","a","s","e">>
SchemeSqlserver == <<"s","q","l","s","e","r","v","e","r">>
FalseText == <<"f","a","l","s","e">>
OpenErrPrefix == <<"e","r","r","o","r"," ","o","p","e","n","i","n","g"," ","d","a","t","a","b","a","s","e",":"," ">>
PingErrPrefix == <<"e","r","r","o","r"," ","c","o","n","n","e","c","t","i","n","g"," ","t","o"," ","d","a","t","a","b","a","s","e",":"," ">>
ExhaustedPrefix == <<"f","a","i","l","e","d"," ","t","o"," ","c","o","n","n","e","c","t"," ","a","f","t","e","r"," ">>
ExhaustedInfix == <<" ","a","t","t","e","m","p","t","s",":"," ">>
DeadlineExceededText == <<"c","o","n","t","e","x","t"," ","d","e","a","d","l","i","n","e"," ","e","x","c","e","e","d","e","d">>
CanceledText == <<"c","o","n","t","e","x","t"," ","c","a","n","c","e","l","e","d">>
ConfigErrorLine == <<"E","r","r","o","r",":"," ","n","o"," ","c","o","n","n","e","c","t","i","o","n"," ","s","t","r","i","n","g"," ","p","r","o","v","i","d","e","d"," ","v","i","a"," ","-","-","d","s","n"," ","f","l","a","g"," ","o","r"," ","e","n","v","i","r","o","n","m","e","n","t"," ","v","a","r","i","a","b","l","e","s">>
SuccessLine == <<"C","o","n","n","e","c","t","i","o","n"," ","s","u","c","c","e","s","s","f","u","l",":"," ","d","a","t","a","b","a","s","e"," ","i","s"," ","a","w","a","k","e",".">>
VerbosePrefix == <<"C","o","n","n","e","c","t","i","n","g"," ","w","i","t","h"," ","'">>
VerboseSuffix == <<"'",".">>
DefaultPort == <<"1","4","3","3">>

\* the byte value of a character (ASCII)
CharCode ==
    "\t" :> 9 @@ "\n" :> 10 @@ " " :> 32 @@ "!" :> 33 @@ "\"" :> 34 @@ "#" :> 35 @@ "$" :> 36 @@ "%" :> 37 @@ "&" :> 38 @@ "'" :> 39 @@ "(" :> 40
    @@ ")" :> 41 @@ "*" :> 42 @@ "+" :> 43 @@ "," :> 44 @@ "-" :> 45 @@ "." :> 46 @@ "/" :> 47 @@ "0" :> 48
    @@ "1" :> 49 @@ "2" :> 50 @@ "3" :> 51 @@ "4" :> 52 @@ "5" :> 53 @@ "6" :> 54 @@ "7" :> 55 @@ "8" :> 56
    @@ "9" :> 57 @@ ":" :> 58 @@ ";" :> 59 @@ "<" :> 60 @@ "=" :> 61 @@ ">" :> 62 @@ "?" :> 63 @@ "@" :> 64
    @@ "A" :> 65 @@ "B" :> 66 @@ "C" :> 67 @@ "D" :> 68 @@ "E" :> 69 @@ "F" :> 70 @@ "G" :> 71 @@ "H" :> 72
    @@ "I" :> 73 @@ "J" :> 74 @@ "K" :> 75 @@ "L" :> 76 @@ "M" :> 77 @@ "N" :> 78 @@ "O" :> 79 @@ "P" :> 80
    @@ "Q" :> 81 @@ "R" :> 82 @@ "S" :> 83 @@ "T" :> 84 @@ "U" :> 85 @@ "V" :> 86 @@ "W" :> 87 @@ "X" :> 88
    @@ "Y" :> 89 @@ "Z" :> 90 @@ "[" :> 91 @@ "\\" :> 92 @@ "]" :> 93 @@ "^" :> 94 @@ "_" :> 95 @@ "a" :> 97
    @@ "b" :> 98 @@ "c" :> 99 @@ "d" :> 100 @@ "e" :> 101 @@ "f" :> 102 @@ "g" :> 103 @@ "h" :> 104 @@ "i" :> 105
    @@ "j" :> 106 @@ "k" :> 107 @@ "l" :> 108 @@ "m" :> 109 @@ "n" :> 110 @@ "o" :> 111 @@ "p" :> 112 @@ "q" :> 113
    @@ "r" :> 114 @@ "s" :> 115 @@ "t" :> 116 @@ "u" :> 117 @@ "v" :> 118 @@ "w" :> 119 @@ "x" :> 120 @@ "y" :> 121
    @@ "z" :> 122 @@ "{" :> 123 @@ "|" :> 124 @@ "}" :> 125 @@ "~" :> 126

HexDigits == <<"0","1","2","3","4","5","6","7","8","9","A","B","C","D","E","F">>
DecDigits == <<"0","1","2","3","4","5","6","7","8","9">>

\* strings.Contains(s, substr)
Contains(s, substr) ==
    \E i \in 0..(Len(s) - Len(substr)) : SubSeq(s, i + 1, i + Len(substr)) = substr

\* strings.HasPrefix(s, prefix)
HasPrefix(s, prefix) ==
    Len(s) >= Len(prefix) /\ SubSeq(s, 1, Len(prefix)) = prefix

\* the decimal text of a natural number (fmt %d, strconv.FormatFloat with no decimals)
RECURSIVE FormatInt(_)
FormatInt(n) ==
    IF n < 10 THEN <<DecDigits[n + 1]>>
    ELSE FormatInt(n \div 10) \o <<DecDigits[(n % 10) + 1]>>

\* bytewise s < t, the order sort.Strings uses on the keys of url.Values
RECURSIVE StringLess(_, _)
StringLess(s, t) ==
    IF t = <<>> THEN FALSE
    ELSE IF s = <<>> THEN TRUE
    ELSE IF CharCode[Head(s)] # CharCode[Head(t)] THEN CharCode[Head(s)] < CharCode[Head(t)]
    ELSE StringLess(Tail(s), Tail(t))

(* ------------------------ net/url, as main uses it -------------------- *)
Alphanumeric ==
    {c \in DOMAIN CharCode :
        \/ CharCode[c] \in 48..57
        \/ CharCode[c] \in 65..90
        \/ CharCode[c] \in 97..122}
HostAllowed == {"!", "$", "&", "'", "(", ")", "*", "+", ",", ";", "=", ":", "[", "]", "<", ">", "\""}
UnreservedMarks == {"-", "_", ".", "~"}
Reserved == {"$", "&", "+", ",", "/", ":", ";", "=", "?", "@"}

\* url.shouldEscape(c, mode) for the modes URL.String and Values.Encode use
shouldEscape(c, mode) ==
    IF c \in Alphanumeric THEN FALSE
    ELSE IF mode = "encodeHost" /\ c \in HostAllowed THEN FALSE
    ELSE IF c \in UnreservedMarks THEN FALSE
    ELSE IF c \in Reserved /\ mode = "encodePath" THEN c = "?"
    ELSE IF c \in Reserved /\ mode = "encodeUserPassword" THEN c \in {"@", "/", "?", ":"}
    ELSE TRUE

\* url.escape(s, mode): %XX for a byte that must be escaped, + for a space in a query
RECURSIVE escape(_, _)
escape(s, mode) ==
    IF s = <<>> THEN <<>>
    ELSE LET c == Head(s)
             e == IF ~shouldEscape(c, mode) THEN <<c>>
                  ELSE IF c = " " /\ mode = "encodeQueryComponent" THEN <<"+">>
                  ELSE <<"%", HexDigits[(CharCode[c] \div 16) + 1], HexDigits[(CharCode[c] % 16) + 1]>>
         IN  e \o escape(Tail(s), mode)

QueryEscape(s) == escape(s, "encodeQueryComponent")

\* the pairs of q with kv added, kept in ascending key order
RECURSIVE InsertByKey(_, _)
InsertByKey(sorted, kv) ==
    IF sorted = <<>> THEN <<kv>>
    ELSE IF StringLess(kv[1], Head(sorted)[1]) THEN <<kv>> \o sorted
    ELSE <<Head(sorted)>> \o InsertByKey(Tail(sorted), kv)

RECURSIVE SortByKey(_)
SortByKey(q) ==
    IF q = <<>> THEN <<>>
    ELSE InsertByKey(SortByKey(SubSeq(q, 1, Len(q) - 1)), q[Len(q)])

RECURSIVE JoinPairs(_)
JoinPairs(pairs) ==
    IF pairs = <<>> THEN <<>>
    ELSE LET kv == Head(pairs)
             one == QueryEscape(kv[1]) \o <<"=">> \o QueryEscape(kv[2])
         IN  IF Len(pairs) = 1 THEN one ELSE one \o <<"&">> \o JoinPairs(Tail(pairs))

\* url.Values.Encode(): key=value pairs sorted by key, joined by &
QueryEncode(q) == JoinPairs(SortByKey(q))

\* url.Userinfo.String() of url.UserPassword(username, password)
UserinfoString(username, passwd) ==
    escape(username, "encodeUserPassword") \o <<":">> \o escape(passwd, "encodeUserPassword")

\* url.URL.String() of URL{Scheme, Host, User, Path, RawQuery}, User always set
URLString(scheme, host, username, passwd, path, rawQuery) ==
    LET escPath == IF path = <<"*">> THEN path ELSE escape(path, "encodePath")
    IN  scheme \o <<":">>
        \o <<"/", "/">>
        \o UserinfoString(username, passwd) \o <<"@">>
        \o (IF host # <<>> THEN escape(host, "encodeHost") ELSE <<>>)
        \o (IF escPath # <<>> /\ Head(escPath) # "/" /\ host # <<>> THEN <<"/">> ELSE <<>>)
        \o escPath
        \o (IF rawQuery # <<>> THEN <<"?">> \o rawQuery ELSE <<>>)

(* --------------------------- src/src/main.go -------------------------- *)
\* buildConnectionString letting a given server override the DSN
buildConnectionString_ServerWins(srv, prt, inst, db, username, passwd, rawDsn) ==
    IF rawDsn # <<>> /\ srv = <<>> THEN rawDsn
    ELSE LET q0 == << <<AppNameKey, AppNameValue>>,
                      <<DisableRetryKey, FalseText>>,
                      <<DialTimeoutKey, FormatInt(DialTimeoutDuration \div Second)>> >>
             q == IF db # <<>> THEN Append(q0, <<DatabaseKey, db>>) ELSE q0
             host == srv \o <<":">> \o prt
             path == IF inst # <<>> THEN inst ELSE <<>>
             rawQuery == IF Len(q) > 0 THEN QueryEncode(q) ELSE <<>>
         IN  URLString(SchemeSqlserver, host, username, passwd, path, rawQuery)

\* buildConnectionString: the DSN as given, or a sqlserver:// URL of the options
buildConnectionString(srv, prt, inst, db, username, passwd, rawDsn) ==
    IF rawDsn # <<>> THEN rawDsn
    ELSE LET q0 == << <<AppNameKey, AppNameValue>>,
                      <<DisableRetryKey, FalseText>>,
                      <<DialTimeoutKey, FormatInt(DialTimeoutDuration \div Second)>> >>
             q == IF db # <<>> THEN Append(q0, <<DatabaseKey, db>>) ELSE q0
             host == srv \o <<":">> \o prt
             path == IF inst # <<>> THEN inst ELSE <<>>
             rawQuery == IF Len(q) > 0 THEN QueryEncode(q) ELSE <<>>
         IN  URLString(SchemeSqlserver, host, username, passwd, path, rawQuery)

\* buildConnectionString of src/unnamed/part_003: the same body, but its parameters are
\* (server, port, database, instance, username, password, dsn)
buildConnectionString_part003(srv, prt, db, inst, username, passwd, rawDsn) ==
    IF rawDsn # <<>> THEN rawDsn
    ELSE LET q0 == << <<AppNameKey, AppNameValue>>,
                      <<DisableRetryKey, FalseText>>,
                      <<DialTimeoutKey, FormatInt(DialTimeoutDuration \div Second)>> >>
             q == IF db # <<>> THEN Append(q0, <<DatabaseKey, db>>) ELSE q0
             host == srv \o <<":">> \o prt
             path == IF inst # <<>> THEN inst ELSE <<>>
             rawQuery == IF Len(q) > 0 THEN QueryEncode(q) ELSE <<>>
         IN  URLString(SchemeSqlserver, host, username, passwd, path, rawQuery)

\* an error value: nil, or an error with a message
NilError == [isNil |-> TRUE, msg |-> <<>>]
Errorf(text) == [isNil |-> FALSE, msg |-> text]

\* isThrottlingError looking for the first four digits only
isThrottlingError_ShortMarker(e) ==
    IF e.isNil THEN FALSE
    ELSE Contains(e.msg, SubSeq(ThrottlingMarker, 1, 4))

\* isThrottlingError: the error text contains "40613"
isThrottlingError(e) ==
    IF e.isNil THEN FALSE
    ELSE Contains(e.msg, ThrottlingMarker)

\* addJitter with a jitter of 10% centred on the delay (5% either way)
addJitter_Centred(delay, r) ==
    LET jitter == (r * delay) \div (RandSteps * 10)
    IN  delay + jitter - (delay \div 20)

\* addJitter: delay plus rand.Float64() * delay * 0.1, truncated; r / RandSteps is the draw
addJitter(delay, r) ==
    LET jitter == (r * delay) \div (RandSteps * 10)
    IN  delay + jitter

(* ------------------------------ inputs -------------------------------- *)
ServerValues == {<<>>, <<"h">>}
PortValues == {DefaultPort, <<"1","4","3","4">>}
InstanceValues == {<<>>, <<"i">>}
DatabaseValues == {<<>>, <<"d">>}
UserValues == {<<>>, <<"u","@">>}
PasswordValues == {<<>>, <<"p">>}
DsnValues ==
    { <<>>,
      <<"s","q","l","s","e","r","v","e","r",":","/","/","u",":","p","@","h","o","s","t","/","i","n","s","t","a","n","c","e">>,
      <<"s","e","r","v","e","r","=","h",";","u","s","e","r"," ","i","d","=","u">> }

\* error texts the driver may produce: two carry the marker 40613, the others do not
ThrottlingTexts == { <<"4","0","6","1","3">>, <<"e","r","r"," ","4","0","6","1","3","!">> }
FatalTexts == { <<"b","a","d">>, <<"4","0","6","1","4">> }
OpenErrTexts == { <<"b","a","d">>, <<"4","0","6","1","3">> }
PingErrTexts == ThrottlingTexts \cup FatalTexts

ProbeStep == 60 * Second
ProbeDurations == { i * ProbeStep : i \in 0..MaxProbeSteps }

\* a context that is never done (context.Background())
NoDeadline == -1
\* contexts retryWithThrottlingError is called with: <<time Done() closes, ctx.Err()>>
Contexts ==
    { <<NoDeadline, <<>> >>,
      <<0, CanceledText>>,
      <<20 * Second, CanceledText>>,
      <<100 * Second, DeadlineExceededText>>,
      <<MainTimeout, DeadlineExceededText>> }

\* the text of main's variable why (lines 175-180), which fmt.Println(why) prints
HelpLine ==
    <<
      "C","o","n","n","e","c","t"," ","t","o"," ","a","w","a","k","e","n"," ","a"," ","p","a","u","s","e","d"," ","A","z","u","r","e"," ","D","B",".","\n","\n"," "," ",
      "P","r","o","v","i","d","e"," ","c","o","n","n","e","c","t","i","o","n"," ","d","e","t","a","i","l","s"," ","o","r"," ","e","n","v","i","r","o","n","m","e","n",
      "t"," ","v","a","r","i","a","b","l","e","s"," ","t","o"," ","c","o","n","n","e","c","t","."," ","F","o","r"," ","a","l","l"," ","o","p","t","i","o","n","s",",",
      "\n"," "," ","t","h","e","r","e"," ","i","s"," ","a"," ","c","o","r","r","e","s","p","o","n","d","i","n","g"," ","e","n","v","i","r","o","n","m","e","n","t"," ",
      "v","a","r","i","a","b","l","e"," ","n","a","m","e","d"," ","W","A","K","E","U","P","_","<","o","p","t","i","o","n","_","n","a","m","e",">",".","\n","\n","\t","-",
      "-","s","e","r","v","e","r","=","m","y","s","e","r","v","e","r"," ","-",">"," ","W","A","K","E","U","P","_","S","E","R","V","E","R","=","m","y","s","e","r","v",
      "e","r"
    >>
Newline == <<"\n">>

(* ------------------------------ state --------------------------------- *)
VARIABLES
    server, port, instance, database, user, password, dsn, help, verbose,
    pc,                \* main | retry | sleep | connect | probe | returned | exited
    connectionString,  \* main's connectionString, retryWithThrottlingError's connString
    stdout, exitCode,  \* what the process printed, and its exit status (-1 while running)
    clock,             \* time since the process started
    ctxDoneAt, ctxErr, \* when ctx.Done() is closed (NoDeadline: never), and ctx.Err() then
    attempt, retryDelay, lastErr,   \* the locals of retryWithThrottlingError
    err,               \* the error of the last call of connectWithString (nil: success)
    throttled,         \* how many calls of connectWithString failed with the marker in the text
    retDb, retErr, outcome,         \* what it returned, and from which return statement
    returnedAt,
    attempts, sleeps,  \* calls of connectWithString and of time.Sleep so far
    attemptAt,         \* the time the last call of connectWithString began
    sleepFrom, sleepUntil, sleepNominal,   \* the last time.Sleep
    opens, probes,     \* calls of sql.Open and of db.PingContext so far
    openDBs,           \* the *sql.DB handles opened and not closed (numbered by attempt)
    driverErr,         \* connectWithString's own err: the text of the error that sql.Open or
                       \* db.PingContext last gave (empty: nil)
    connectTime        \* the time spent inside the calls of connectWithString so far

flags == <<server, port, instance, database, user, password, dsn, help, verbose>>
mainVars == <<connectionString, stdout, exitCode>>
ctxVars == <<ctxDoneAt, ctxErr>>
loopVars == <<attempt, retryDelay, lastErr, err, throttled>>
retVars == <<retDb, retErr, outcome, returnedAt>>
sleepVars == <<sleeps, sleepFrom, sleepUntil, sleepNominal>>
connVars == <<attempts, attemptAt, opens, probes, openDBs, driverErr, connectTime>>
vars == <<flags, pc, mainVars, clock, ctxVars, loopVars, retVars, sleepVars, connVars>>

\* the select case <-ctx.Done() is ready
CtxDone == ctxDoneAt # NoDeadline /\ clock >= ctxDoneAt

\* everything but the flags, the connection string and the context, at process start
Fresh ==
    /\ stdout = <<>> /\ exitCode = -1
    /\ clock = 0
    /\ attempt = 0 /\ retryDelay = InitialRetryDelay /\ lastErr = NilError
    /\ err = NilError /\ throttled = 0
    /\ retDb = 0 /\ retErr = NilError /\ outcome = "none" /\ returnedAt = -1
    /\ attempts = 0 /\ sleeps = 0 /\ attemptAt = -1
    /\ sleepFrom = -1 /\ sleepUntil = -1 /\ sleepNominal = 0
    /\ opens = 0 /\ probes = 0 /\ openDBs = {} /\ driverErr = <<>> /\ connectTime = 0

\* main is about to run, nothing has happened yet
Started ==
    /\ pc = "main"
    /\ connectionString = <<>>
    /\ ctxDoneAt = NoDeadline /\ ctxErr = <<>>
    /\ Fresh

\* the process starts with one of a few command lines: server, port and DSN given or
\* not, --help and --verbose set or not, the other options absent
Init ==
    /\ server \in ServerValues /\ port \in PortValues /\ dsn \in DsnValues
    /\ instance = <<>> /\ database = <<>> /\ user = <<>> /\ password = <<>>
    /\ help \in BOOLEAN /\ verbose \in BOOLEAN
    /\ Started

\* the process starts with any combination of the option values
InitConfig ==
    /\ server \in ServerValues /\ port \in PortValues /\ instance \in InstanceValues
    /\ database \in DatabaseValues /\ user \in UserValues /\ password \in PasswordValues
    /\ dsn \in DsnValues /\ help \in BOOLEAN /\ verbose \in BOOLEAN
    /\ Started

(* ------------------------------ main ---------------------------------- *)
\* main, lines 174-186: --help prints the usage and exits 0
MainHelp ==
    /\ pc = "main" /\ help
    /\ stdout' = HelpLine \o Newline
    /\ exitCode' = 0
    /\ pc' = "exited"
    /\ UNCHANGED <<flags, connectionString, clock, ctxVars, loopVars, retVars, sleepVars, connVars>>

\* main's connectionString, lines 188-192
MainConnectionString ==
    IF dsn # <<>> THEN dsn
    ELSE buildConnectionString(server, port, instance, database, user, password, dsn)

\* main's test for "no configuration", line 198
IsEmptyConfig(cs) == cs = <<>> \/ HasPrefix(cs, EmptyConfigPrefix)

\* the verbose echo, lines 194-196
VerboseEcho(cs) == IF verbose THEN VerbosePrefix \o cs \o VerboseSuffix ELSE <<>>

\* main, lines 188-201: no usable connection string, exit 1
MainConfigError ==
    /\ pc = "main" /\ ~help
    /\ LET cs == MainConnectionString
       IN  /\ IsEmptyConfig(cs)
           /\ connectionString' = cs
           /\ stdout' = VerboseEcho(cs) \o ConfigErrorLine \o Newline
    /\ exitCode' = 1
    /\ pc' = "exited"
    /\ UNCHANGED <<flags, clock, ctxVars, loopVars, retVars, sleepVars, connVars>>

\* main, lines 188-207: build the string, set the 5 minute deadline, enter the retry loop
MainConnect ==
    /\ pc = "main" /\ ~help
    /\ LET cs == MainConnectionString
       IN  /\ ~IsEmptyConfig(cs)
           /\ connectionString' = cs
           /\ stdout' = VerboseEcho(cs)
    /\ ctxDoneAt' = clock + MainTimeout
    /\ ctxErr' = DeadlineExceededText
    /\ attempt' = 0 /\ retryDelay' = InitialRetryDelay /\ lastErr' = NilError
    /\ pc' = "retry"
    /\ UNCHANGED <<flags, exitCode, clock, err, throttled, retVars, sleepVars, connVars>>

\* MainFinish without the os.Exit(1) of line 210: the error is printed, the exit status is 0
MainFinish_ExitsZero ==
    /\ pc = "returned"
    /\ IF ~retErr.isNil
       THEN /\ stdout' = stdout \o retErr.msg \o Newline
            /\ exitCode' = 0
            /\ UNCHANGED connVars
       ELSE /\ stdout' = stdout \o SuccessLine \o Newline
            /\ exitCode' = 0
            /\ openDBs' = openDBs \ {retDb}
            /\ UNCHANGED <<attempts, attemptAt, opens, probes, driverErr, connectTime>>
    /\ pc' = "exited"
    /\ UNCHANGED <<flags, connectionString, clock, ctxVars, loopVars, retVars, sleepVars>>

\* main, lines 208-215: print the error and exit 1, or close the handle and exit 0
MainFinish ==
    /\ pc = "returned"
    /\ IF ~retErr.isNil
       THEN /\ stdout' = stdout \o retErr.msg \o Newline
            /\ exitCode' = 1
            /\ UNCHANGED connVars
       ELSE /\ stdout' = stdout \o SuccessLine \o Newline
            /\ exitCode' = 0
            /\ openDBs' = openDBs \ {retDb}
            /\ UNCHANGED <<attempts, attemptAt, opens, probes, driverErr, connectTime>>
    /\ pc' = "exited"
    /\ UNCHANGED <<flags, connectionString, clock, ctxVars, loopVars, retVars, sleepVars>>

(* ------------------- main of src/unnamed/part_003 --------------------- *)
ConfigErrorLine_part003 == <<"E","r","r","o","r",":"," ","N","o"," ","c","o","n","n","e","c","t","i","o","n"," ","s","t","r","i","n","g"," ","p","r","o","v","i","d","e","d"," ","v","i","a"," ","-","-","d","s","n"," ","f","l","a","g"," ","o","r"," ","e","n","v","i","r","o","n","m","e","n","t"," ","v","a","r","i","a","b","l","e","s">>

\* part_003 has no --verbose flag
Init_part003 == InitConfig /\ ~verbose

\* part_003 main, lines 124-136: --help prints the usage and exits 0
MainHelp_part003 ==
    /\ pc = "main" /\ help
    /\ stdout' = HelpLine \o Newline
    /\ exitCode' = 0
    /\ pc' = "exited"
    /\ UNCHANGED <<flags, connectionString, clock, ctxVars, loopVars, retVars, sleepVars, connVars>>

\* part_003 main, lines 138-142: the call passes (server, port, instance, database, ...)
MainConnectionString_part003 ==
    IF dsn # <<>> THEN dsn
    ELSE buildConnectionString_part003(server, port, instance, database, user, password, dsn)

\* part_003 main, lines 138-147: no usable connection string, exit 1
MainConfigError_part003 ==
    /\ pc = "main" /\ ~help
    /\ LET cs == MainConnectionString_part003
       IN  /\ IsEmptyConfig(cs)
           /\ connectionString' = cs
    /\ stdout' = ConfigErrorLine_part003 \o Newline
    /\ exitCode' = 1
    /\ pc' = "exited"
    /\ UNCHANGED <<flags, clock, ctxVars, loopVars, retVars, sleepVars, connVars>>

\* part_003 main, lines 138-150: build the string and call connectWithString with it
MainConnect_part003 ==
    /\ pc = "main" /\ ~help
    /\ LET cs == MainConnectionString_part003
       IN  /\ ~IsEmptyConfig(cs)
           /\ connectionString' = cs
    /\ pc' = "connect"
    /\ UNCHANGED <<flags, stdout, exitCode, clock, ctxVars, loopVars, retVars, sleepVars, connVars>>

(* --------------------- retryWithThrottlingError ----------------------- *)
\* the error of line 131
ExhaustedError(last) ==
    Errorf(ExhaustedPrefix \o FormatInt(maxRetries) \o ExhaustedInfix
           \o (IF last.isNil THEN <<"<","n","i","l",">">> ELSE last.msg))

\* a return statement of retryWithThrottlingError
Return(db, e, which) ==
    /\ retDb' = db /\ retErr' = e /\ outcome' = which
    /\ returnedAt' = clock'
    /\ pc' = "returned"

\* RetryStops without the return of line 131: nothing follows the used-up range
RetryStops_NoExhaustedReturn ==
    /\ pc = "retry"
    /\ clock' = clock
    /\ attempt < maxRetries
    /\ CtxDone
    /\ Return(0, Errorf(ctxErr), "Cancelled")
    /\ UNCHANGED <<flags, mainVars, ctxVars, loopVars, sleepVars, connVars>>

\* the top of an iteration ends the run: the range is used up (line 107, then the return
\* of line 131), or the context is done (lines 108-110)
RetryStops ==
    /\ pc = "retry"
    /\ clock' = clock
    /\ IF attempt >= maxRetries
       THEN Return(0, ExhaustedError(lastErr), "FailedExhausted")
       ELSE /\ CtxDone
            /\ Return(0, Errorf(ctxErr), "Cancelled")
    /\ UNCHANGED <<flags, mainVars, ctxVars, loopVars, sleepVars, connVars>>

\* RetryFirst with the test of line 112 dropped: a sleep even before the first attempt
RetryFirst_SleepsFirst ==
    /\ pc = "retry" /\ attempt < maxRetries
    /\ ~CtxDone
    /\ attempt = 0
    /\ \E r \in 0..(RandSteps - 1) :
          /\ sleepFrom' = clock
          /\ sleepNominal' = retryDelay
          /\ sleepUntil' = clock + addJitter(retryDelay, r)
    /\ sleeps' = sleeps + 1
    /\ pc' = "sleep"
    /\ UNCHANGED <<flags, mainVars, clock, ctxVars, loopVars, retVars, connVars>>

\* lines 111-117, attempt = 0: straight to connectWithString
RetryFirst ==
    /\ pc = "retry" /\ attempt < maxRetries
    /\ ~CtxDone
    /\ attempt = 0
    /\ pc' = "connect"
    /\ UNCHANGED <<flags, mainVars, clock, ctxVars, loopVars, retVars, sleepVars, connVars>>

\* lines 111-114, attempt > 0: time.Sleep(addJitter(retryDelay)) begins
RetrySleep ==
    /\ pc = "retry" /\ attempt < maxRetries
    /\ ~CtxDone
    /\ attempt > 0
    /\ \E r \in 0..(RandSteps - 1) :
          /\ sleepFrom' = clock
          /\ sleepNominal' = retryDelay
          /\ sleepUntil' = clock + addJitter(retryDelay, r)
    /\ sleeps' = sleeps + 1
    /\ pc' = "sleep"
    /\ UNCHANGED <<flags, mainVars, clock, ctxVars, loopVars, retVars, connVars>>

\* line 114: time.Sleep returns when its duration has passed, whatever the context
SleepReturns ==
    /\ pc = "sleep"
    /\ clock' = sleepUntil
    /\ pc' = "connect"
    /\ UNCHANGED <<flags, mainVars, ctxVars, loopVars, retVars, sleepVars, connVars>>

\* AttemptFailed with line 122 keeping the first error instead of the last
AttemptFailed_KeepsFirstError(e) ==
    /\ err' = e
    /\ throttled' = throttled + (IF Contains(e.msg, ThrottlingMarker) THEN 1 ELSE 0)
    /\ lastErr' = IF lastErr.isNil THEN e ELSE lastErr
    /\ IF ~isThrottlingError(e)
       THEN /\ Return(0, e, "FailedFatal")
            /\ UNCHANGED <<attempt, retryDelay>>
       ELSE /\ retryDelay' = retryDelay * 2
            /\ attempt' = attempt + 1
            /\ pc' = "retry"
            /\ UNCHANGED retVars

\* AttemptFailed with the test of line 123 dropped: every failure is retried
AttemptFailed_RetriesAll(e) ==
    /\ err' = e
    /\ throttled' = throttled + (IF Contains(e.msg, ThrottlingMarker) THEN 1 ELSE 0)
    /\ lastErr' = e
    /\ retryDelay' = retryDelay * 2
    /\ attempt' = attempt + 1
    /\ pc' = "retry"
    /\ UNCHANGED retVars

\* lines 117-127 when connectWithString returned e # nil
AttemptFailed(e) ==
    /\ err' = e
    /\ throttled' = throttled + (IF Contains(e.msg, ThrottlingMarker) THEN 1 ELSE 0)
    /\ lastErr' = e
    /\ IF ~isThrottlingError(e)
       THEN /\ Return(0, e, "FailedFatal")
            /\ UNCHANGED <<attempt, retryDelay>>
       ELSE /\ retryDelay' = retryDelay * 2
            /\ attempt' = attempt + 1
            /\ pc' = "retry"
            /\ UNCHANGED retVars

(* -------------------------- connectWithString ------------------------- *)
\* line 138: fmt.Errorf("error opening database: %v", err)
WrapOpenError(e) == Errorf(OpenErrPrefix \o e)

\* the wrapping of line 153 without the %v: the message alone
WrapPingError_DropsCause(e) == Errorf(PingErrPrefix)

\* line 153: fmt.Errorf("error connecting to database: %v", err)
WrapPingError(e) == Errorf(PingErrPrefix \o e)

\* lines 136-139: sql.Open fails, nothing was opened
ConnectOpenFails ==
    /\ pc = "connect"
    /\ attempts' = attempts + 1 /\ attemptAt' = clock
    /\ opens' = opens + 1
    /\ clock' = clock
    /\ \E e \in OpenErrTexts :
          /\ driverErr' = e
          /\ AttemptFailed(WrapOpenError(e))
    /\ UNCHANGED <<flags, mainVars, ctxVars, sleepVars, probes, openDBs, connectTime>>

\* lines 136-150: sql.Open gives a handle, the pool is set up, the ping starts
ConnectOpens ==
    /\ pc = "connect"
    /\ attempts' = attempts + 1 /\ attemptAt' = clock
    /\ opens' = opens + 1
    /\ openDBs' = openDBs \cup {attempts + 1}
    /\ driverErr' = <<>>
    /\ probes' = probes + 1
    /\ pc' = "probe"
    /\ UNCHANGED <<flags, mainVars, clock, ctxVars, loopVars, retVars, sleepVars, connectTime>>

\* ProbeSucceeds with the handle closed on the way out (a deferred db.Close())
ProbeSucceeds_ClosesHandle ==
    /\ pc = "probe"
    /\ \E d \in ProbeDurations : clock' = clock + d /\ connectTime' = connectTime + d
    /\ err' = NilError
    /\ Return(attempts, NilError, "Succeeded")
    /\ openDBs' = openDBs \ {attempts}
    /\ UNCHANGED <<flags, mainVars, ctxVars, attempt, retryDelay, lastErr, throttled, sleepVars,
                   attempts, attemptAt, opens, probes, driverErr>>

\* lines 150, 156 and 118-119: the ping succeeds after d, the handle is returned
ProbeSucceeds ==
    /\ pc = "probe"
    /\ \E d \in ProbeDurations : clock' = clock + d /\ connectTime' = connectTime + d
    /\ err' = NilError
    /\ Return(attempts, NilError, "Succeeded")
    /\ UNCHANGED <<flags, mainVars, ctxVars, attempt, retryDelay, lastErr, throttled, sleepVars,
                   attempts, attemptAt, opens, probes, openDBs, driverErr>>

\* ProbeFails with the db.Close() of line 152 left out
ProbeFails_LeaksHandle ==
    /\ pc = "probe"
    /\ \E d \in ProbeDurations, e \in PingErrTexts :
          /\ clock' = clock + d /\ connectTime' = connectTime + d
          /\ driverErr' = e
          /\ AttemptFailed(WrapPingError(e))
    /\ UNCHANGED <<flags, mainVars, ctxVars, sleepVars, attempts, attemptAt, opens, probes, openDBs>>

\* ProbeFails with a retry inside connectWithString: after a failed ping it pings again
ProbeFails_PingsAgain ==
    /\ pc = "probe"
    /\ \E d \in ProbeDurations : clock' = clock + d /\ connectTime' = connectTime + d
    /\ probes' = probes + 1
    /\ UNCHANGED <<flags, mainVars, ctxVars, loopVars, retVars, sleepVars, pc,
                   attempts, attemptAt, opens, openDBs, driverErr>>

\* lines 150-154 and 118-127: the ping fails after d, the handle is closed
ProbeFails ==
    /\ pc = "probe"
    /\ \E d \in ProbeDurations, e \in PingErrTexts :
          /\ clock' = clock + d /\ connectTime' = connectTime + d
          /\ driverErr' = e
          /\ AttemptFailed(WrapPingError(e))
    /\ openDBs' = openDBs \ {attempts}
    /\ UNCHANGED <<flags, mainVars, ctxVars, sleepVars, attempts, attemptAt, opens, probes>>

\* lines 147-154: the ping's own 5 minute context runs out
ProbeTimesOut ==
    /\ pc = "probe"
    /\ clock' = clock + PingTimeout /\ connectTime' = connectTime + PingTimeout
    /\ driverErr' = DeadlineExceededText
    /\ AttemptFailed(WrapPingError(DeadlineExceededText))
    /\ openDBs' = openDBs \ {attempts}
    /\ UNCHANGED <<flags, mainVars, ctxVars, sleepVars, attempts, attemptAt, opens, probes>>

(* --------------------------- specifications --------------------------- *)
Retry ==
    \/ RetryStops \/ RetryFirst \/ RetrySleep \/ SleepReturns
    \/ ConnectOpenFails \/ ConnectOpens \/ ProbeSucceeds \/ ProbeFails \/ ProbeTimesOut

Next == MainHelp \/ MainConfigError \/ MainConnect \/ MainFinish \/ Retry

\* the whole command
Spec == Init /\ [][Next]_vars

\* retryWithThrottlingError called on its own, with any of Contexts
InitRetry ==
    /\ server = <<>> /\ port = DefaultPort /\ instance = <<>> /\ database = <<>>
    /\ user = <<>> /\ password = <<>> /\ help = FALSE /\ verbose = FALSE
    /\ dsn \in DsnValues \ {<<>>}
    /\ connectionString = dsn
    /\ \E c \in Contexts : ctxDoneAt = c[1] /\ ctxErr = c[2]
    /\ pc = "retry"
    /\ Fresh

NextRetry == Retry

SpecRetry == InitRetry /\ [][NextRetry]_vars

\* the same, where every call of connectWithString returns and every sleep ends:
\* a step that can be taken is taken
SpecRetryFair == SpecRetry /\ WF_vars(NextRetry)

\* main up to the call of retryWithThrottlingError, for every combination of options
NextConfig == MainHelp \/ MainConfigError \/ MainConnect

SpecConfig == InitConfig /\ [][NextConfig]_vars

\* main of src/unnamed/part_003 up to its call of connectWithString
Next_part003 == MainHelp_part003 \/ MainConfigError_part003 \/ MainConnect_part003

Spec_part003 == Init_part003 /\ [][Next_part003]_vars

(* ------------------------------ claims -------------------------------- *)
\* the marker 40613 occurs in text, position by position
HasMarker(text) ==
    \E i \in 1..(Len(text) - 4) :
        /\ text[i] = "4" /\ text[i + 1] = "0" /\ text[i + 2] = "6"
        /\ text[i + 3] = "1" /\ text[i + 4] = "3"

\* the context was not done at any moment up to now
NeverCancelled == ~CtxDone

\* C1: in any run of retryWithThrottlingError there are at most maxRetries (6) calls of
\* connectWithString, no sleep before the first call, and exactly one sleep between two
\* consecutive calls: a sleep is under way or just over only on the way to the next
\* call, otherwise sleeps = calls - 1, and none follows the last call.
C1_AttemptsAndSleeps ==
    /\ attempts <= 6
    /\ attempts = 0 => sleeps = 0
    /\ attempts > 0 =>
          IF pc \in {"sleep", "connect"} THEN sleeps = attempts ELSE sleeps = attempts - 1
    /\ pc = "sleep" => attempts < 6

C1_Witness ==
    /\ pc = "returned" /\ outcome = "Cancelled"
    /\ attempts = 3 /\ sleeps = 2

\* C2: when every attempt failed with the marker in its text and the context was never
\* done, retryWithThrottlingError returns after exactly 6 attempts with the error
\* "failed to connect after 6 attempts: " followed by the text of the last attempt's error.
C2_Exhausted ==
    (pc = "returned" /\ attempts > 0 /\ throttled = attempts /\ NeverCancelled) =>
        /\ outcome = "FailedExhausted"
        /\ attempts = 6
        /\ retDb = 0
        /\ retErr = Errorf(ExhaustedPrefix \o FormatInt(attempts) \o ExhaustedInfix \o err.msg)

\* the last error differs from the first, so the message tells them apart
C2_Witness ==
    /\ pc = "returned" /\ outcome = "FailedExhausted" /\ NeverCancelled
    /\ throttled = 6
    /\ err.msg = PingErrPrefix \o <<"4","0","6","1","3">>
    /\ sleepUntil > sleepFrom + sleepNominal

\* C3: once an attempt has failed with an error whose text lacks the marker, the run is
\* over: retryWithThrottlingError has returned that very error, nothing opened or
\* slept after it, and a fatal first attempt means one attempt and no sleep.
C3_FatalStopsAtOnce ==
    /\ (attempts > 0 /\ ~err.isNil /\ ~HasMarker(err.msg)) =>
          /\ pc = "returned" /\ outcome = "FailedFatal"
          /\ retErr = err /\ retDb = 0
          /\ attempts = throttled + 1 /\ sleeps = throttled
    /\ outcome = "FailedFatal" => (~err.isNil /\ ~HasMarker(err.msg))
    /\ (outcome = "FailedFatal" /\ throttled = 0) => (attempts = 1 /\ sleeps = 0)

C3_Witness ==
    /\ pc = "returned" /\ outcome = "FailedFatal"
    /\ attempts = 1 /\ sleeps = 0
    /\ retErr.msg = PingErrPrefix \o <<"b","a","d">>

\* C4: when the first k calls failed with the marker and call k+1 succeeded, with the
\* context never done, retryWithThrottlingError returns the handle of call k+1, open,
\* after k+1 attempts and k sleeps, for every k in 0..5.
C4_SuccessAfterK ==
    (pc = "returned" /\ attempts > 0 /\ err.isNil /\ NeverCancelled) =>
        /\ outcome = "Succeeded" /\ retErr.isNil
        /\ retDb = attempts /\ retDb \in openDBs
        /\ attempts = throttled + 1
        /\ sleeps = throttled
        /\ throttled \in 0..5

C4_Witness ==
    /\ pc = "returned" /\ outcome = "Succeeded" /\ NeverCancelled
    /\ throttled = 2 /\ attempts = 3 /\ sleeps = 2

\* the grace period within which a cancelled wait is expected to be over
GracePeriod == 1 * Second

\* the context became done while the last time.Sleep was under way
FiredInSleep ==
    /\ sleeps > 0 /\ ctxDoneAt # NoDeadline
    /\ sleepFrom < ctxDoneAt /\ ctxDoneAt < sleepUntil

\* C5: when the context becomes done during a backoff sleep, retryWithThrottlingError
\* returns the context's error within GracePeriod of that moment, whatever is left of
\* the sleep: no later state of the run is reached, and it returns Cancelled.
C5_SleepIsInterrupted ==
    FiredInSleep =>
        /\ pc # "returned" => clock <= ctxDoneAt + GracePeriod
        /\ pc = "returned" => (outcome = "Cancelled" /\ returnedAt <= ctxDoneAt + GracePeriod)

\* C6: no call of connectWithString begins when the context is already done, also when
\* it became done during the sleep before that call, and a context done on entry gives
\* Cancelled with no attempt at all.
C6_NoAttemptAfterCancel ==
    /\ attempts > 0 => (ctxDoneAt = NoDeadline \/ attemptAt < ctxDoneAt)
    /\ (pc = "returned" /\ ctxDoneAt = 0) => (outcome = "Cancelled" /\ attempts = 0)

\* C7: a ping that is under way when main's 5 minute deadline passes is given up within
\* GracePeriod of the deadline, it does not run on to its own timeout.
C7_ProbeObservesDeadline ==
    [][(pc = "probe" /\ clock < ctxDoneAt /\ pc' # "probe") => clock' <= ctxDoneAt + GracePeriod]_vars

\* every error value the model's driver can hand to the classifier
ErrorSamples ==
    {NilError}
    \cup {Errorf(t) : t \in OpenErrTexts \cup PingErrTexts \cup {DeadlineExceededText, <<>>}}
    \cup {Errorf(OpenErrPrefix \o t) : t \in OpenErrTexts}
    \cup {Errorf(PingErrPrefix \o t) : t \in PingErrTexts \cup {DeadlineExceededText}}

\* C8: isThrottlingError is true exactly of the non-nil errors whose text contains 40613,
\* and the scheduler goes on to another iteration only after an attempt whose error
\* text contains 40613; an error without it ends the run.
C8_Classifier ==
    /\ \A e \in ErrorSamples \cup {err, lastErr, retErr} :
          isThrottlingError(e) <=> (~e.isNil /\ HasMarker(e.msg))
    /\ (attempts > 0 /\ pc \in {"retry", "sleep", "connect"}) => HasMarker(err.msg)
    /\ (attempts > 0 /\ ~err.isNil /\ ~HasMarker(err.msg)) => pc = "returned"

\* one retry after a marker error, then the run ends on 40614, which lacks the marker
C8_Witness ==
    /\ pc = "returned" /\ outcome = "FailedFatal"
    /\ throttled = 1 /\ attempts = 2
    /\ err.msg = PingErrPrefix \o <<"4","0","6","1","4">>

\* C9: with a non-empty DSN, buildConnectionString returns the DSN itself and main hands
\* the DSN itself to retryWithThrottlingError, whatever the other options are.
C9_DsnVerbatim ==
    dsn # <<>> =>
        /\ buildConnectionString(server, port, instance, database, user, password, dsn) = dsn
        /\ pc = "retry" => connectionString = dsn

C9_Witness ==
    /\ pc = "retry" /\ connectionString = dsn
    /\ dsn # <<>> /\ server # <<>> /\ port # DefaultPort /\ instance # <<>>
    /\ database # <<>> /\ user # <<>> /\ password # <<>>

\* C10: with DSN, server, user and password all empty, whatever port, instance and
\* database are, main takes the string for empty configuration and exits 1 without
\* entering retryWithThrottlingError and without any connection attempt.
C10_EmptyConfigFails ==
    (~help /\ pc # "main" /\ dsn = <<>> /\ server = <<>> /\ user = <<>> /\ password = <<>>) =>
        /\ pc = "exited" /\ exitCode = 1
        /\ attempts = 0 /\ opens = 0

\* C11: no handle leaks. A handle is open only while its ping is under way or after
\* its ping succeeded: between attempts none is open, at most one is open at any time,
\* a run that ends in a failure leaves none open, a successful run returns exactly the
\* one open handle, and main has closed it when the process ends.
C11_NoHandleLeak ==
    /\ Cardinality(openDBs) <= 1
    /\ pc \in {"main", "retry", "sleep", "connect"} => openDBs = {}
    /\ pc = "probe" => openDBs = {attempts}
    /\ (pc = "returned" /\ outcome # "Succeeded") => openDBs = {}
    /\ (pc = "returned" /\ outcome = "Succeeded") => (retDb = attempts /\ openDBs = {retDb})
    /\ pc = "exited" => openDBs = {}

\* a run whose first ping failed and whose second succeeded, ended
C11_Witness ==
    /\ pc = "exited" /\ exitCode = 0 /\ outcome = "Succeeded"
    /\ probes = 2 /\ opens = 2 /\ openDBs = {}

\* the nominal delays retryWithThrottlingError can hand to addJitter
NominalDelays == { InitialRetryDelay * (2 ^ k) : k \in 1..(maxRetries - 1) }

\* C12: for every delay d and every draw, addJitter(d) lies in [d, d * 1.1], and so does
\* the length of every sleep between attempts, d being the retry delay at that sleep.
C12_JitterBound ==
    /\ \A d \in NominalDelays, r \in 0..(RandSteps - 1) :
          /\ addJitter(d, r) >= d
          /\ 10 * addJitter(d, r) <= 11 * d
    /\ sleeps > 0 =>
          /\ sleepUntil - sleepFrom >= sleepNominal
          /\ 10 * (sleepUntil - sleepFrom) <= 11 * sleepNominal
          /\ sleepNominal \in NominalDelays

\* a sleep that jitter made longer than its nominal delay is under way
C12_Witness ==
    /\ pc = "sleep" /\ sleeps = 2
    /\ sleepUntil - sleepFrom > sleepNominal

\* text ends with suffix
HasSuffix(text, suffix) ==
    Len(text) >= Len(suffix) /\ SubSeq(text, Len(text) - Len(suffix) + 1, Len(text)) = suffix

\* the process ended with status 0 exactly when it got a verified connection, and a
\* non-zero end printed the message of its failure last
ExitTellsOutcome ==
    /\ exitCode = 0 <=> outcome = "Succeeded"
    /\ outcome = "Succeeded" => HasSuffix(stdout, SuccessLine \o Newline)
    /\ outcome \in {"FailedFatal", "FailedExhausted", "Cancelled"} =>
          (exitCode = 1 /\ HasSuffix(stdout, retErr.msg \o Newline))
    /\ outcome = "none" =>
          (exitCode = 1 /\ attempts = 0 /\ HasSuffix(stdout, ConfigErrorLine \o Newline))

\* C13 as claimed: every run that has ended has exit status 0 if and only if it got a
\* verified connection, and otherwise a non-zero status with the failure's message.
C13_ExitStatus_Original ==
    pc = "exited" => ExitTellsOutcome

\* C13: every run without --help that has ended has exit status 0 if and only if it
\* got a verified connection, and otherwise status 1 with the message of the
\* configuration error, the fatal failure or the cancellation printed last; a run with
\* --help ends with status 0 and no connection.
C13_ExitStatus ==
    /\ (pc = "exited" /\ ~help) => ExitTellsOutcome
    /\ (pc = "exited" /\ help) => (exitCode = 0 /\ outcome = "none" /\ attempts = 0)
    /\ pc # "exited" => exitCode = -1

\* a run cancelled by main's deadline after three failed attempts has ended with status 1
C13_Witness ==
    /\ pc = "exited" /\ exitCode = 1 /\ outcome = "Cancelled"
    /\ attempts >= 3
    /\ HasSuffix(stdout, DeadlineExceededText \o Newline)

FixedQuery == <<"?","A","p","p","N","a","m","e","=","g","h","c","r",".","i","o","%","2","F","r","e","d","m","e","r","%","2","F","a","z","u","r","e","-","w","a","k","e","u","p","-","d","b","&","D","i","a","l","T","i","m","e","o","u","t","=","3","0","0","&","D","i","s","a","b","l","e","R","e","t","r","y","=","f","a","l","s","e">>
SchemePrefix == <<"s","q","l","s","e","r","v","e","r",":","/","/">>
DatabaseParam == <<"&","d","a","t","a","b","a","s","e","=">>

\* the URL the options stand for: scheme, user:password@server:port, the instance as
\* the path if there is one, the fixed parameters, the database parameter if there is one
ExpectedURL ==
    SchemePrefix
    \o escape(user, "encodeUserPassword") \o <<":">> \o escape(password, "encodeUserPassword")
    \o <<"@">> \o server \o <<":">> \o port
    \o (IF instance # <<>> THEN <<"/">> \o instance ELSE <<>>)
    \o FixedQuery
    \o (IF database # <<>> THEN DatabaseParam \o database ELSE <<>>)

\* C14: without a DSN, the string a main has built when it goes on to connect is the
\* sqlserver URL of the options: server:port, user:password, the instance as the path
\* exactly when it is given, the database as the database parameter exactly when it is
\* given. This is to hold for the main of src/src/main.go and the main of part_003.
C14_BuiltFromOptions ==
    (pc \in {"retry", "connect"} /\ attempts = 0 /\ dsn = <<>>) => connectionString = ExpectedURL

\* C15: the nominal delay of the k-th sleep, the one before attempt k + 1, is
\* 12 s * 2^(k-1): 12 s before attempt 2, 24 s before attempt 3, ... 192 s before attempt 6
C15_DocumentedSchedule ==
    sleeps > 0 => sleepNominal = InitialRetryDelay * (2 ^ (sleeps - 1))

TerminalOutcomes == {"Succeeded", "FailedFatal", "FailedExhausted", "Cancelled"}

\* C16: every run of retryWithThrottlingError in which each call of connectWithString
\* returns and each sleep ends comes to return; it has returned exactly when it has one of
\* the four terminal outcomes, the outcome once set never changes, and after the return
\* there is no further attempt and no further sleep
C16_Terminates ==
    /\ <>(pc = "returned" /\ outcome \in TerminalOutcomes)
    /\ [](pc = "returned" <=> outcome \in TerminalOutcomes)
    /\ [](outcome \in TerminalOutcomes \cup {"none"})
    /\ [][outcome # "none" =>
            (outcome' = outcome /\ attempts' = attempts /\ sleeps' = sleeps /\ pc' = "returned")]_vars

\* the run that uses up its six attempts and five sleeps has returned
C16_Witness ==
    pc = "returned" /\ outcome = "FailedExhausted" /\ attempts = maxRetries /\ sleeps = maxRetries - 1

\* C17 as stated: when the run has returned, the probes issued are as many as the attempts,
\* and never more than maxRetries
C17_ProbesEqualAttempts ==
    /\ attempts <= maxRetries
    /\ pc = "returned" => probes = attempts

\* C17: connectWithString does not retry: every call is one sql.Open and at most one ping,
\* so the opens are as many as the attempts, the probes are never more than the attempts
\* (one fewer for each call whose sql.Open fails), and neither exceeds maxRetries
C17_NoInternalRetry ==
    /\ opens = attempts
    /\ probes <= attempts
    /\ attempts <= maxRetries
    /\ attempts \in {attempt, attempt + 1}
    /\ pc = "probe" => probes >= 1

\* six attempts were made, some of them failed in sql.Open and some in the ping
C17_Witness ==
    pc = "returned" /\ attempts = maxRetries /\ probes >= 1 /\ probes < attempts

FailedOutcomes == {"FailedFatal", "FailedExhausted", "Cancelled"}

\* the elapsed time of the run in whole seconds, in decimal
ElapsedText == FormatInt(returnedAt \div Second)

\* C18: the error that a failed run returns (and main prints) tells the number of attempts
\* made, the time the run took and the root cause; a run cancelled after one or more
\* failed attempts tells the cause of the last failure
C18_FailureReport ==
    (pc = "returned" /\ outcome \in FailedOutcomes) =>
        /\ Contains(retErr.msg, FormatInt(attempts))
        /\ Contains(retErr.msg, ElapsedText)
        /\ (attempts > 0 => Contains(retErr.msg, lastErr.msg))

\* what main echoes under --verbose when the password option is p and all else is as it is
EchoWithPassword(p) ==
    VerboseEcho(IF dsn # <<>> THEN dsn
                ELSE buildConnectionString(server, port, instance, database, user, p, dsn))

\* a URL DSN with the password p embedded
DsnWithPassword(p) == <<"s","q","l","s","e","r","v","e","r",":","/","/","u",":">> \o p \o <<"@","h","o","s","t","/","i","n","s","t","a","n","c","e">>

\* C19: under --verbose, what main has echoed is what it would have echoed for any other
\* password, given as --password or embedded in the DSN
C19_EchoHidesPassword ==
    (verbose /\ ~help /\ pc # "main") =>
        /\ \A p \in PasswordValues : HasPrefix(stdout, EchoWithPassword(p))
        /\ dsn = DsnWithPassword(<<"p">>) =>
               HasPrefix(stdout, VerbosePrefix \o DsnWithPassword(<<"q">>) \o VerboseSuffix)

\* C20: wrapping keeps the classification. For every error text e that sql.Open or
\* db.PingContext can give, isThrottlingError of the wrapped error is true exactly when e
\* contains the marker; and in every run, once a call of connectWithString has failed, the
\* scheduler has gone on if the call's own error contained the marker and has returned the
\* call's error if it did not
C20_WrappingKeepsClass ==
    /\ \A e \in OpenErrTexts : isThrottlingError(WrapOpenError(e)) <=> HasMarker(e)
    /\ \A e \in PingErrTexts \cup {DeadlineExceededText} :
           isThrottlingError(WrapPingError(e)) <=> HasMarker(e)
    /\ (attempts > 0 /\ ~err.isNil /\ pc # "probe") =>
           (isThrottlingError(err) <=> HasMarker(driverErr))
    /\ (attempts > 0 /\ pc \in {"retry", "sleep", "connect"}) => HasMarker(driverErr)
    /\ (attempts > 0 /\ driverErr # <<>> /\ ~HasMarker(driverErr) /\ pc \notin {"probe", "exited"})
           => (pc = "returned" /\ outcome = "FailedFatal" /\ retErr = err)

\* the run went on after a wrapped throttling failure of the ping and stopped at a wrapped
\* non-throttling failure of sql.Open
C20_Witness ==
    /\ pc = "returned" /\ outcome = "FailedFatal" /\ attempts >= 2 /\ throttled >= 1
    /\ probes >= 1 /\ probes < attempts
    /\ driverErr # <<>> /\ ~HasMarker(driverErr) /\ HasPrefix(retErr.msg, OpenErrPrefix)

\* every call of connectWithString so far failed with a throttling failure, and took no time
AllFailedAtOnce == attempts > 0 /\ throttled = attempts /\ connectTime = 0

\* C21: the attempt budget fits inside the deadline that main sets. A run of the command
\* in which every attempt fails at once with a throttling failure returns only after all
\* of its maxRetries (6) attempts, with the exhausted failure and not with Cancelled
C21_BudgetFitsDeadline ==
    (pc = "returned" /\ ctxDoneAt = MainTimeout /\ AllFailedAtOnce) =>
        (outcome = "FailedExhausted" /\ attempts = maxRetries)
====
